---- MODULE Spec2Model ----
(***************************************************************************)
(* Model of generate_icons.py: the module-level script (makedirs, two      *)
(* create_icon calls, completion banner) and the body of create_icon,      *)
(* statement by statement.                                                 *)
(*                                                                         *)
(* Python floats are IEEE-754 binary64.  Every float the script computes   *)
(* is modelled exactly: a float is the natural number v with value         *)
(* v * 2^-FracBits, held as a little-endian sequence of limbs (TLC's       *)
(* integers are 32 bits wide), and every float operation rounds its exact  *)
(* result to Precision significant bits, ties to even.                     *)
(***************************************************************************)
EXTENDS Integers, Sequences, FiniteSets, TLC

(***************************************************************************)
(* Natural numbers of arbitrary size: little-endian limbs, no leading zero *)
(* limb, zero is << >>.                                                    *)
(***************************************************************************)
LimbBits == 15
Base == 2^LimbBits

Limb(a, i) == IF i <= Len(a) THEN a[i] ELSE 0
Rest(a) == IF a = << >> THEN << >> ELSE Tail(a)

RECURSIVE BNorm(_)
BNorm(a) ==
    IF a = << >> THEN << >>
    ELSE IF a[Len(a)] = 0 THEN BNorm(SubSeq(a, 1, Len(a) - 1))
    ELSE a

RECURSIVE BFromInt(_)
BFromInt(n) == IF n = 0 THEN << >> ELSE <<n % Base>> \o BFromInt(n \div Base)

RECURSIVE BToInt(_)
BToInt(a) == IF a = << >> THEN 0 ELSE a[1] + Base * BToInt(Tail(a))

RECURSIVE BAddC(_, _, _)
BAddC(a, b, c) ==
    IF a = << >> /\ b = << >> THEN (IF c = 0 THEN << >> ELSE <<c>>)
    ELSE LET t == Limb(a, 1) + Limb(b, 1) + c
         IN  <<t % Base>> \o BAddC(Rest(a), Rest(b), t \div Base)

BAdd(a, b) == BAddC(a, b, 0)

RECURSIVE BSubB(_, _, _)
BSubB(a, b, br) ==
    IF a = << >> THEN << >>
    ELSE LET t == a[1] - Limb(b, 1) - br
         IN  <<(t + Base) % Base>> \o BSubB(Tail(a), Rest(b), IF t < 0 THEN 1 ELSE 0)

\* a - b, for a >= b
BSub(a, b) == BNorm(BSubB(a, b, 0))

RECURSIVE BCmpFrom(_, _, _)
BCmpFrom(a, b, i) ==
    IF i = 0 THEN 0
    ELSE IF a[i] < b[i] THEN -1
    ELSE IF a[i] > b[i] THEN 1
    ELSE BCmpFrom(a, b, i - 1)

\* -1, 0 or 1 as a < b, a = b, a > b
BCmp(a, b) ==
    IF Len(a) < Len(b) THEN -1
    ELSE IF Len(a) > Len(b) THEN 1
    ELSE BCmpFrom(a, b, Len(a))

BLe(a, b) == BCmp(a, b) <= 0
BLt(a, b) == BCmp(a, b) < 0

\* |a - b|
BDist(a, b) == IF BLe(a, b) THEN BSub(b, a) ELSE BSub(a, b)

RECURSIVE BMulSmallC(_, _, _)
BMulSmallC(a, k, c) ==
    IF a = << >> THEN (IF c = 0 THEN << >> ELSE <<c>>)
    ELSE LET t == a[1] * k + c
         IN  <<t % Base>> \o BMulSmallC(Tail(a), k, t \div Base)

\* a * k, for 0 <= k < Base
BMulSmall(a, k) == IF k = 0 THEN << >> ELSE BMulSmallC(a, k, 0)

RECURSIVE BMulAcc(_, _)
BMulAcc(a, b) ==
    IF b = << >> THEN << >>
    ELSE BAdd(BMulSmall(a, b[1]), <<0>> \o BMulAcc(a, Tail(b)))

BMul(a, b) == BNorm(BMulAcc(a, b))

\* quotient and remainder of a by k, for 0 < k <= Base
RECURSIVE BDivRem(_, _)
BDivRem(a, k) ==
    IF a = << >> THEN [q |-> << >>, r |-> 0]
    ELSE LET hi == BDivRem(Tail(a), k)
             t  == hi.r * Base + a[1]
         IN  [q |-> <<t \div k>> \o hi.q, r |-> t % k]

Zeros(w) == [i \in 1..w |-> 0]

\* a * 2^q
BShl(a, q) ==
    IF a = << >> THEN << >>
    ELSE Zeros(q \div LimbBits) \o BMulSmall(a, 2^(q % LimbBits))

\* floor(a / 2^q)
BShr(a, q) ==
    LET w == q \div LimbBits
    IN  IF Len(a) <= w THEN << >>
        ELSE BNorm(BDivRem(SubSeq(a, w + 1, Len(a)), 2^(q % LimbBits)).q)

RECURSIVE IntBitLen(_)
IntBitLen(n) == IF n = 0 THEN 0 ELSE 1 + IntBitLen(n \div 2)

BitLen(a) == IF a = << >> THEN 0 ELSE LimbBits * (Len(a) - 1) + IntBitLen(a[Len(a)])

BOdd(a) == a # << >> /\ a[1] % 2 = 1

(***************************************************************************)
(* binary64 arithmetic.                                                    *)
(***************************************************************************)
Precision == 53
FracBits == 60

\* a rounded to Precision significant bits, to nearest, ties to even
RoundSig(a) ==
    LET L == BitLen(a)
    IN  IF L <= Precision THEN a
        ELSE LET q    == L - Precision
                 hi   == BShr(a, q)
                 lo   == BSub(a, BShl(hi, q))
                 c    == BCmp(lo, BShl(<<1>>, q - 1))
                 up   == c > 0 \/ (c = 0 /\ BOdd(hi))
             IN  BShl(IF up THEN BAdd(hi, <<1>>) ELSE hi, q)

\* float(n) of a Python int n >= 0 (exact below 2^53)
FromInt(n) == BShl(BFromInt(n), FracBits)

\* the float a decimal literal num/den denotes: the rational correctly rounded
\* (the quotient is taken to 2 * FracBits bits with a sticky bit below it)
Literal(num, den) ==
    LET d == BDivRem(BShl(BFromInt(num), 2 * FracBits), den)
        y == BAdd(BShl(BNorm(d.q), 1), IF d.r = 0 THEN << >> ELSE <<1>>)
    IN  BShr(RoundSig(y), FracBits + 1)

\* the float literals of the script
F0_1 == Literal(1, 10)
F0_3 == Literal(3, 10)
F0_4 == Literal(4, 10)
F0_5 == Literal(5, 10)
F0_6 == Literal(6, 10)
F0_7 == Literal(7, 10)

FMul(a, b) == BShr(RoundSig(BMul(a, b)), FracBits)
FAdd(a, b) == RoundSig(BAdd(a, b))
\* a - b for a >= b
FSub(a, b) == RoundSig(BSub(a, b))
\* a / 2 (exact: no underflow in the range of the script)
FHalf(a) == BShr(a, 1)

\* floor and ceiling of a float, as integers
Floor(a) == BToInt(BShr(a, FracBits))
Ceil(a) == IF BShl(BShr(a, FracBits), FracBits) = a THEN Floor(a) ELSE Floor(a) + 1

(***************************************************************************)
(* Strings are sequences of one-character strings.                         *)
(***************************************************************************)
Digits == <<"0", "1", "2", "3", "4", "5", "6", "7", "8", "9">>

\* str(n) of a Python int n >= 0, as the f-string formats it
RECURSIVE str(_)
str(n) == IF n < 10 THEN <<Digits[n + 1]>> ELSE str(n \div 10) \o <<Digits[(n % 10) + 1]>>

icon_dir ==
    <<"F", "i", "l", "e", "L", "o", "c", "k", "e", "r", "/",
      "A", "s", "s", "e", "t", "s", ".", "x", "c", "a", "s", "s", "e", "t", "s", "/",
      "A", "p", "p", "I", "c", "o", "n", ".", "a", "p", "p", "i", "c", "o", "n", "s", "e", "t">>

\* the suffix test off by one: scale >= 1
make_filename_ge(sz, sc) ==
    <<"a", "p", "p", "_", "i", "c", "o", "n", "_">> \o str(sz) \o <<"x">> \o str(sz)
      \o (IF sc >= 1 THEN <<"@">> \o str(sc) \o <<"x">> ELSE << >>)
      \o <<".", "p", "n", "g">>

\* the suffix left out
make_filename_noscale(sz, sc) ==
    <<"a", "p", "p", "_", "i", "c", "o", "n", "_">> \o str(sz) \o <<"x">> \o str(sz)
      \o <<".", "p", "n", "g">>

\* lines 51-54
make_filename(sz, sc) ==
    <<"a", "p", "p", "_", "i", "c", "o", "n", "_">> \o str(sz) \o <<"x">> \o str(sz)
      \o (IF sc > 1 THEN <<"@">> \o str(sc) \o <<"x">> ELSE << >>)
      \o <<".", "p", "n", "g">>

\* os.path.join of two components (POSIX)
path_join(a, b) ==
    IF b # << >> /\ b[1] = "/" THEN b
    ELSE IF a = << >> \/ a[Len(a)] = "/" THEN a \o b
    ELSE a \o <<"/">> \o b

(***************************************************************************)
(* The canvas.  An image is its size and the colour of the pixels of a     *)
(* sampling grid.  A pixel a shape's boundary passes within a pixel of     *)
(* takes the colour Unknown (the rasteriser's rounding decides it) unless  *)
(* it already has the shape's colour.                                      *)
(***************************************************************************)
GridN == 4

Transparent == <<0, 0, 0, 0>>
BackgroundFill == <<0, 102, 204>>
LockFill == <<255, 255, 255>>
Unknown == <<-1, -1, -1, -1>>

\* an RGB fill on an RGBA image is opaque
Ink(fill) == fill \o <<255>>

Min2(a, b) == IF a < b THEN a ELSE b
Max2(a, b) == IF a > b THEN a ELSE b
Abs(a) == IF a < 0 THEN -a ELSE a

Probes(n) == {Min2((k * n) \div GridN, n - 1) : k \in 0..GridN} \cup {n \div 2}

NoImage == [w |-> 0, h |-> 0, px |-> << >>]

\* Image.new('RGBA', (w, h), color=(0, 0, 0, 0))
new_image(w, h) == [w |-> w, h |-> h, px |-> [p \in Probes(w) \X Probes(h) |-> Transparent]]

Shape(op, x0, y0, x1, y1, radius, fill) ==
    [op |-> op, x0 |-> x0, y0 |-> y0, x1 |-> x1, y1 |-> y1, radius |-> radius, fill |-> fill]

\* the whole pixels around the float corners of a shape, and around its radius
Box(s) ==
    [op |-> s.op,
     x0f |-> Floor(s.x0), x0c |-> Ceil(s.x0), x1f |-> Floor(s.x1), x1c |-> Ceil(s.x1),
     y0f |-> Floor(s.y0), y0c |-> Ceil(s.y0), y1f |-> Floor(s.y1), y1c |-> Ceil(s.y1),
     r   |-> Ceil(s.radius)]

\* draw.rectangle: both corners are inside the rectangle
RectCover(b, x, y) ==
    IF x < b.x0f \/ x > b.x1c \/ y < b.y0f \/ y > b.y1c THEN "out"
    ELSE IF x >= b.x0c /\ x <= b.x1f /\ y >= b.y0c /\ y <= b.y1f THEN "in"
    ELSE "edge"

\* draw.ellipse in a square bounding box: the inscribed disc
DiscCover(b, x, y) ==
    LET W  == b.x1f - b.x0f
        dx == Abs(2 * x - b.x0f - b.x1f)
        dy == Abs(2 * y - b.y0f - b.y1f)
        mx == Max2(dx - 2, 0)
        my == Max2(dy - 2, 0)
    IN  IF (dx + 2) * (dx + 2) + (dy + 2) * (dy + 2) <= W * W THEN "in"
        ELSE IF mx * mx + my * my > W * W THEN "out"
        ELSE "edge"

\* draw.rounded_rectangle: the rectangle less what lies outside its corner arcs
RoundedCover(b, x, y) ==
    LET rc    == RectCover(b, x, y)
        nearL == x < b.x0f + b.r + 1
        nearR == x > b.x1c - b.r - 1
        nearT == y < b.y0f + b.r + 1
        nearB == y > b.y1c - b.r - 1
        cx    == IF nearL THEN b.x0f + b.r ELSE b.x1c - b.r
        cy    == IF nearT THEN b.y0f + b.r ELSE b.y1c - b.r
        d2    == (x - cx) * (x - cx) + (y - cy) * (y - cy)
    IN  IF rc = "out" THEN "out"
        ELSE IF (nearL \/ nearR) /\ (nearT \/ nearB)
             THEN IF rc = "in" /\ b.r >= 3 /\ d2 <= (b.r - 3) * (b.r - 3) THEN "in"
                  ELSE IF d2 > (b.r + 3) * (b.r + 3) THEN "out"
                  ELSE "edge"
        ELSE rc

Cover(b, x, y) ==
    CASE b.op = "ellipse" -> DiscCover(b, x, y)
      [] b.op = "rounded_rectangle" -> RoundedCover(b, x, y)
      [] b.op = "rectangle" -> RectCover(b, x, y)

\* the image after the shape is drawn on it
Paint(im, s) ==
    LET b   == Box(s)
        ink == Ink(s.fill)
    IN  [im EXCEPT !.px =
            [p \in DOMAIN im.px |->
                LET c == Cover(b, p[1], p[2])
                IN  IF c = "in" THEN ink
                    ELSE IF c = "out" \/ im.px[p] = ink THEN im.px[p]
                    ELSE Unknown]]

(***************************************************************************)
(* The expressions of create_icon.                                         *)
(***************************************************************************)
\* the scale left out of the canvas size
canvas_size_unscaled(sz, sc) == <<sz, sz>>

\* line 12: the size handed to Image.new
canvas_size(sz, sc) == <<sz * sc, sz * sc>>

\* line 16
background_shape(n) ==
    Shape("ellipse", FromInt(0), FromInt(0), FromInt(n), FromInt(n), << >>, BackgroundFill)

\* the halving left out
LockX_nohalf(n, lw) == FSub(FromInt(n), lw)

\* lines 20-23
LockWidth(n) == FMul(FromInt(n), F0_6)
LockHeight(n) == FMul(FromInt(n), F0_6)
LockX(n, lw) == FHalf(FSub(FromInt(n), lw))
LockY(n, lh) == FHalf(FSub(FromInt(n), lh))

\* the body over the upper 40% of the lock rectangle instead of the lower 60%
body_shape_upper(lx, ly, lw, lh) ==
    Shape("rounded_rectangle",
          lx, ly,
          FAdd(lx, lw), FAdd(ly, FMul(lh, F0_4)),
          FMul(lw, F0_1), LockFill)

\* lines 25-29
body_shape(lx, ly, lw, lh) ==
    Shape("rounded_rectangle",
          lx, FAdd(ly, FMul(lh, F0_4)),
          FAdd(lx, lw), FAdd(ly, lh),
          FMul(lw, F0_1), LockFill)

\* the half-width as wide as the offset of the bars
ShackleWidth_wide(lw) == FMul(lw, F0_3)

\* line 32
ShackleWidth(lw) == FMul(lw, F0_1)

\* lines 33-36
bar_shape(lx, ly, lw, lh) ==
    Shape("rectangle",
          FAdd(lx, FMul(lw, F0_3)), ly,
          FAdd(lx, FMul(lw, F0_7)), FAdd(ly, FMul(lh, F0_5)),
          << >>, LockFill)

\* lines 38-42
left_shape(lx, ly, lw, lh, sw) ==
    Shape("rectangle",
          FSub(FAdd(lx, FMul(lw, F0_3)), sw), ly,
          FAdd(FAdd(lx, FMul(lw, F0_3)), sw), FAdd(ly, FMul(lh, F0_5)),
          << >>, LockFill)

\* lines 44-48
right_shape(lx, ly, lw, lh, sw) ==
    Shape("rectangle",
          FSub(FAdd(lx, FMul(lw, F0_7)), sw), ly,
          FAdd(FAdd(lx, FMul(lw, F0_7)), sw), FAdd(ly, FMul(lh, F0_5)),
          << >>, LockFill)

(***************************************************************************)
(* The file system and the process.                                        *)
(***************************************************************************)
\* what img.save writes: a PNG of the image, alpha kept
PngOf(im) == [format |-> "PNG", mode |-> "RGBA", w |-> im.w, h |-> im.h, px |-> im.px]
\* what an interrupted write can leave
Truncated == [format |-> "truncated", mode |-> "", w |-> 0, h |-> 0, px |-> << >>]
\* a file of the asset catalogue that the script does not write
OtherFile == [format |-> "json", mode |-> "", w |-> 0, h |-> 0, px |-> << >>]
OtherPath == path_join(icon_dir, <<"C", "o", "n", "t", "e", "n", "t", "s", ".", "j", "s", "o", "n">>)

NoFiles == << >>

\* a write that does not replace: a file that is there is kept and a new name taken
write_file_noclobber(fs, path, content) ==
    LET q == IF path \in DOMAIN fs THEN path \o <<"~">> ELSE path
    IN  [p \in (DOMAIN fs) \cup {q} |-> IF p = q THEN content ELSE fs[p]]

\* open(path, "w+b") and write: the file is created, or replaced if it is there
write_file(fs, path, content) ==
    [p \in (DOMAIN fs) \cup {path} |-> IF p = path THEN content ELSE fs[p]]

\* os.makedirs without exist_ok: a directory that is there is an error
makedirs_exist_not_ok(exists) == IF exists THEN {"error"} ELSE {"ok", "error"}

\* os.makedirs(icon_dir, exist_ok=True), by whether the directory is there
makedirs_outcomes(exists) == IF exists THEN {"ok"} ELSE {"ok", "error"}

\* img.save(filepath): opening the file needs the directory; an existing file
\* is no obstacle; the write itself can fail (disk full)
save_outcomes(exists, fs, path) == IF exists THEN {"ok", "error"} ELSE {"error"}

\* the exception caught and passed over: the module goes on with its calls
caught == "call"

\* an exception nothing catches ends the process
uncaught == "crashed"

\* the two calls in the other order
EntryCallsSwapped == <<<<512, 2>>, <<512, 1>>>>

\* lines 60-61
EntryCalls == <<<<512, 1>>, <<512, 2>>>>

MaxSize == 2
MaxScale == 2
MaxRuns == 2

Sizes == (1..MaxSize) \cup {512}
Scales == 1..MaxScale
Args == Sizes \X Scales
Scripts == {<<a>> : a \in Args} \cup {<<a, b>> : a \in Args, b \in Args}

VARIABLES
    pc,             \* the statement the process is at
    script,         \* the create_icon calls of the module, in order
    calls,          \* those still to make
    size, scale,    \* create_icon's arguments
    img,            \* create_icon's canvas
    drawn,          \* the shapes handed to draw, in order
    lock_width, lock_height, lock_x, lock_y, shackle_width,
    filename, filepath,
    dirExists,      \* whether icon_dir is a directory
    files,          \* the files of icon_dir: path -> content
    stdout,         \* the lines printed
    hist,           \* what the process has done, in order
    files0,         \* the files of icon_dir when the process started
    runs,           \* processes started so far
    prevDone        \* whether the process before this one ran to its end

locals == <<size, scale, img, drawn, lock_width, lock_height, lock_x, lock_y,
            shackle_width, filename, filepath>>
geometry == <<lock_width, lock_height, lock_x, lock_y, shackle_width>>
fsys == <<dirExists, files>>
ghost == <<files0, runs, prevDone>>
vars == <<pc, script, calls, locals, fsys, stdout, hist, ghost>>

N == size * scale

FreshLocals ==
    /\ size = 0 /\ scale = 0 /\ img = NoImage /\ drawn = << >>
    /\ lock_width = << >> /\ lock_height = << >> /\ lock_x = << >> /\ lock_y = << >>
    /\ shackle_width = << >> /\ filename = << >> /\ filepath = << >>

\* icon_dir before the first run: absent, empty, or holding the catalogue's own file
InitFsAbsent == dirExists = FALSE /\ files = NoFiles
InitFs ==
    \/ InitFsAbsent
    \/ dirExists = TRUE /\ files = NoFiles
    \/ dirExists = TRUE /\ files = write_file(NoFiles, OtherPath, OtherFile)

InitWith(scripts) ==
    /\ pc = "makedirs"
    /\ script \in scripts
    /\ calls = script
    /\ FreshLocals
    /\ stdout = << >>
    /\ hist = << >>
    /\ files0 = files
    /\ runs = 1
    /\ prevDone = FALSE

\* the script as it is
Init == InitFs /\ InitWith({EntryCalls})
\* the script with any one or two calls of create_icon, in a fresh checkout
InitCalls == InitFsAbsent /\ InitWith(Scripts)

\* line 7, the directory there or created
Makedirs ==
    /\ pc = "makedirs"
    /\ "ok" \in makedirs_outcomes(dirExists)
    /\ pc' = "call"
    /\ dirExists' = TRUE
    /\ hist' = Append(hist, [ev |-> "makedirs"])
    /\ UNCHANGED <<script, calls, locals, files, stdout, ghost>>

\* line 7 raising OSError
MakedirsError ==
    /\ pc = "makedirs"
    /\ "error" \in makedirs_outcomes(dirExists)
    /\ pc' = uncaught
    /\ hist' = Append(hist, [ev |-> "makedirs_error"])
    /\ UNCHANGED <<script, calls, locals, fsys, stdout, ghost>>

\* lines 60, 61: the next call of create_icon
Call ==
    /\ pc = "call"
    /\ calls # << >>
    /\ size' = Head(calls)[1]
    /\ scale' = Head(calls)[2]
    /\ calls' = Tail(calls)
    /\ img' = NoImage /\ drawn' = << >>
    /\ lock_width' = << >> /\ lock_height' = << >> /\ lock_x' = << >> /\ lock_y' = << >>
    /\ shackle_width' = << >> /\ filename' = << >> /\ filepath' = << >>
    /\ pc' = "new"
    /\ UNCHANGED <<script, fsys, stdout, hist, ghost>>

\* lines 12-13
NewImage ==
    /\ pc = "new"
    /\ img' = new_image(canvas_size(size, scale)[1], canvas_size(size, scale)[2])
    /\ pc' = "ellipse"
    /\ UNCHANGED <<script, calls, size, scale, drawn, geometry, filename, filepath,
                   fsys, stdout, hist, ghost>>

Draw(s, next) ==
    /\ img' = Paint(img, s)
    /\ drawn' = Append(drawn, s)
    /\ pc' = next
    /\ UNCHANGED <<script, calls, size, scale, filename, filepath, fsys, stdout, hist, ghost>>

\* line 16
DrawBackground ==
    /\ pc = "ellipse"
    /\ Draw(background_shape(N), "lock")
    /\ UNCHANGED geometry

\* lines 20-23
ComputeLock ==
    /\ pc = "lock"
    /\ lock_width' = LockWidth(N)
    /\ lock_height' = LockHeight(N)
    /\ lock_x' = LockX(N, lock_width')
    /\ lock_y' = LockY(N, lock_height')
    /\ pc' = "body"
    /\ UNCHANGED <<script, calls, size, scale, img, drawn, shackle_width, filename, filepath,
                   fsys, stdout, hist, ghost>>

\* lines 25-29
DrawBody ==
    /\ pc = "body"
    /\ Draw(body_shape(lock_x, lock_y, lock_width, lock_height), "shackle_width")
    /\ UNCHANGED geometry

\* line 32
ComputeShackleWidth ==
    /\ pc = "shackle_width"
    /\ shackle_width' = ShackleWidth(lock_width)
    /\ pc' = "bar"
    /\ UNCHANGED <<script, calls, size, scale, img, drawn, lock_width, lock_height, lock_x,
                   lock_y, filename, filepath, fsys, stdout, hist, ghost>>

\* lines 33-36
DrawBar ==
    /\ pc = "bar"
    /\ Draw(bar_shape(lock_x, lock_y, lock_width, lock_height), "left")
    /\ UNCHANGED geometry

\* lines 38-42
DrawLeft ==
    /\ pc = "left"
    /\ Draw(left_shape(lock_x, lock_y, lock_width, lock_height, shackle_width), "right")
    /\ UNCHANGED geometry

\* lines 44-48
DrawRight ==
    /\ pc = "right"
    /\ Draw(right_shape(lock_x, lock_y, lock_width, lock_height, shackle_width), "filename")
    /\ UNCHANGED geometry

\* lines 51-55
ComposeFilename ==
    /\ pc = "filename"
    /\ filename' = make_filename(size, scale)
    /\ filepath' = path_join(icon_dir, filename')
    /\ pc' = "save"
    /\ UNCHANGED <<script, calls, size, scale, img, drawn, geometry, fsys, stdout, hist, ghost>>

SaveEvent(ev) == [ev |-> ev, size |-> size, scale |-> scale, path |-> filepath]

\* line 56, the file written
Save ==
    /\ pc = "save"
    /\ "ok" \in save_outcomes(dirExists, files, filepath)
    /\ files' = write_file(files, filepath, PngOf(img))
    /\ hist' = Append(hist, SaveEvent("save"))
    /\ pc' = "print"
    /\ UNCHANGED <<script, calls, locals, dirExists, stdout, ghost>>

\* line 56 raising: the file is as it was, or was opened and is cut short
SaveError ==
    /\ pc = "save"
    /\ "error" \in save_outcomes(dirExists, files, filepath)
    /\ \/ files' = files
       \/ dirExists /\ files' = write_file(files, filepath, Truncated)
    /\ hist' = Append(hist, SaveEvent("save_error"))
    /\ pc' = uncaught
    /\ UNCHANGED <<script, calls, locals, dirExists, stdout, ghost>>

\* line 57, and the return to the module
print_generated ==
    /\ pc = "print"
    /\ stdout' = Append(stdout, [line |-> "generated", path |-> filepath])
    /\ hist' = Append(hist, [ev |-> "print", path |-> filepath])
    /\ pc' = "call"
    /\ UNCHANGED <<script, calls, locals, fsys, ghost>>

\* line 63, and the end of the module
print_banner ==
    /\ pc = "call"
    /\ calls = << >>
    /\ stdout' = Append(stdout, [line |-> "complete", path |-> << >>])
    /\ hist' = Append(hist, [ev |-> "banner"])
    /\ pc' = "done"
    /\ UNCHANGED <<script, calls, locals, fsys, ghost>>

\* the script is run again: a new process on the file system the last one left
Rerun ==
    /\ pc \in {"done", "crashed"}
    /\ runs < MaxRuns
    /\ pc' = "makedirs"
    /\ calls' = script
    /\ size' = 0 /\ scale' = 0 /\ img' = NoImage /\ drawn' = << >>
    /\ lock_width' = << >> /\ lock_height' = << >> /\ lock_x' = << >> /\ lock_y' = << >>
    /\ shackle_width' = << >> /\ filename' = << >> /\ filepath' = << >>
    /\ stdout' = << >>
    /\ hist' = << >>
    /\ files0' = files
    /\ runs' = runs + 1
    /\ prevDone' = (pc = "done")
    /\ UNCHANGED <<script, fsys>>

Next ==
    \/ Makedirs
    \/ MakedirsError
    \/ Call
    \/ NewImage
    \/ DrawBackground
    \/ ComputeLock
    \/ DrawBody
    \/ ComputeShackleWidth
    \/ DrawBar
    \/ DrawLeft
    \/ DrawRight
    \/ ComposeFilename
    \/ Save
    \/ SaveError
    \/ print_generated
    \/ print_banner
    \/ Rerun

Spec == Init /\ [][Next]_vars
SpecCalls == InitCalls /\ [][Next]_vars
(***************************************************************************)
(* Vocabulary of the properties.                                           *)
(***************************************************************************)
Path512 ==
    <<"F", "i", "l", "e", "L", "o", "c", "k", "e", "r", "/",
      "A", "s", "s", "e", "t", "s", ".", "x", "c", "a", "s", "s", "e", "t", "s", "/",
      "A", "p", "p", "I", "c", "o", "n", ".", "a", "p", "p", "i", "c", "o", "n", "s", "e", "t", "/",
      "a", "p", "p", "_", "i", "c", "o", "n", "_", "5", "1", "2", "x", "5", "1", "2",
      ".", "p", "n", "g">>
Path512at2x ==
    <<"F", "i", "l", "e", "L", "o", "c", "k", "e", "r", "/",
      "A", "s", "s", "e", "t", "s", ".", "x", "c", "a", "s", "s", "e", "t", "s", "/",
      "A", "p", "p", "I", "c", "o", "n", ".", "a", "p", "p", "i", "c", "o", "n", "s", "e", "t", "/",
      "a", "p", "p", "_", "i", "c", "o", "n", "_", "5", "1", "2", "x", "5", "1", "2",
      "@", "2", "x", ".", "p", "n", "g">>

IsPng(p) == p \in DOMAIN files /\ files[p].format = "PNG"

\* the statements of create_icon after the one named
AfterLock == {"body", "shackle_width", "bar", "left", "right", "filename", "save", "print"}
AfterBody == AfterLock \ {"body"}
AfterFilename == {"save", "print"}

Saves == {i \in DOMAIN hist : hist[i].ev = "save"}
SaveTries == {i \in DOMAIN hist : hist[i].ev \in {"save", "save_error"}}
Errors == {i \in DOMAIN hist : hist[i].ev \in {"makedirs_error", "save_error"}}

CountChar(s, c) == Cardinality({i \in DOMAIN s : s[i] = c})

\* the rounding the floats of the canvas n allow: n * 2^-(Precision - 1)
Tol(n) == BFromInt(n * 2^(FracBits - Precision + 1))
\* |a - (k/10) * b| <= Tol(n), for floats (or exact sums of floats) a and b
NearTenths(a, k, b, n) == BLe(BDist(BMulSmall(a, 10), BMulSmall(b, k)), BMulSmall(Tol(n), 10))

\* the last file written by this process was written by a call with these arguments
LastSaveSame ==
    /\ Saves # {}
    /\ LET i == CHOOSE k \in Saves : \A m \in Saves : m <= k
       IN  hist[i].size = size /\ hist[i].scale = scale

\* the centre pixel of the 512 x 512 image
Centre == <<256, 256>>

\* the canvas less the right edge of the lock rectangle, as reals
RightMargin == BSub(FromInt(N), BAdd(lock_x, lock_width))
BottomMargin == BSub(FromInt(N), BAdd(lock_y, lock_height))

\* what a run of the script without failure does and prints
ExpectedHist ==
    << [ev |-> "makedirs"],
       [ev |-> "save", size |-> 512, scale |-> 1, path |-> Path512],
       [ev |-> "print", path |-> Path512],
       [ev |-> "save", size |-> 512, scale |-> 2, path |-> Path512at2x],
       [ev |-> "print", path |-> Path512at2x],
       [ev |-> "banner"] >>

ExpectedStdout ==
    << [line |-> "generated", path |-> Path512],
       [line |-> "generated", path |-> Path512at2x],
       [line |-> "complete", path |-> << >>] >>

\* the float x lies at k tenths of the lock width right of lock_x
AtWidthTenths(x, k) == BLe(lock_x, x) /\ NearTenths(BSub(x, lock_x), k, lock_width, N)
\* the float y lies at k tenths of the lock height below lock_y
AtHeightTenths(y, k) == BLe(lock_y, y) /\ NearTenths(BSub(y, lock_y), k, lock_height, N)

\* the image create_icon(sz, sc) draws, from its arguments alone
Render(sz, sc) ==
    LET n  == sz * sc
        lw == LockWidth(n)
        lh == LockHeight(n)
        lx == LockX(n, lw)
        ly == LockY(n, lh)
        sw == ShackleWidth(lw)
    IN  Paint(Paint(Paint(Paint(Paint(new_image(n, n),
            background_shape(n)),
            body_shape(lx, ly, lw, lh)),
            bar_shape(lx, ly, lw, lh)),
            left_shape(lx, ly, lw, lh, sw)),
            right_shape(lx, ly, lw, lh, sw))

PathOf(a) == path_join(icon_dir, make_filename(a[1], a[2]))

(***************************************************************************)
(* C1: the file create_icon(size, scale) writes is named                   *)
(* app_icon_{size}x{size}, then '@{scale}x' if and only if scale > 1, then *)
(* '.png': no '@' at all for scale = 1, exactly '@{scale}x' for scale > 1. *)
(***************************************************************************)
C1_FilenameSuffix ==
    /\ pc \in AfterFilename =>
         LET pre == <<"a", "p", "p", "_", "i", "c", "o", "n", "_">>
                      \o str(size) \o <<"x">> \o str(size)
             L   == Len(filename)
             P   == Len(pre)
         IN  /\ L >= P + 4
             /\ SubSeq(filename, 1, P) = pre
             /\ SubSeq(filename, L - 3, L) = <<".", "p", "n", "g">>
             /\ scale = 1 =>
                  SubSeq(filename, P + 1, L - 4) = << >> /\ CountChar(filename, "@") = 0
             /\ scale > 1 =>
                  /\ SubSeq(filename, P + 1, L - 4) = <<"@">> \o str(scale) \o <<"x">>
                  /\ CountChar(filename, "@") = 1
             /\ filepath = icon_dir \o <<"/">> \o filename
    /\ pc = "print" => IsPng(filepath)
    /\ \A i \in Saves : hist[i].path \in DOMAIN files

\* a call with scale > 1 has written its file after a call with scale = 1 wrote its own
C1_Witness ==
    /\ pc = "print" /\ scale > 1 /\ CountChar(filename, "@") = 1
    /\ \E i \in Saves : hist[i].scale = 1 /\ CountChar(hist[i].path, "@") = 0

(***************************************************************************)
(* C2: the canvas create_icon(size, scale) writes has width = height =     *)
(* size * scale > 0; after a complete run of the script the directory      *)
(* holds app_icon_512x512.png at 512x512 and app_icon_512x512@2x.png at    *)
(* 1024x1024.                                                              *)
(***************************************************************************)
C2_CanvasDims ==
    /\ img # NoImage => img.w = size * scale /\ img.h = size * scale /\ img.w > 0
    /\ pc = "print" => files[filepath].w = size * scale /\ files[filepath].h = size * scale
    /\ (script = EntryCalls /\ pc = "done") =>
         /\ IsPng(Path512) /\ files[Path512].w = 512 /\ files[Path512].h = 512
         /\ IsPng(Path512at2x) /\ files[Path512at2x].w = 1024 /\ files[Path512at2x].h = 1024

C2_Witness ==
    /\ script = EntryCalls /\ pc = "done"
    /\ files[Path512at2x].w = 1024 /\ files[Path512].w = 512

(***************************************************************************)
(* C3: whenever a file write is performed the output directory exists;     *)
(* creating the directory can succeed whether it is absent or present, and *)
(* never fails on a directory that is present, which it leaves with its    *)
(* contents as they were.                                                  *)
(***************************************************************************)
C3_DirBeforeWrite ==
    /\ [](pc = "save" => dirExists)
    /\ [](pc = "makedirs" =>
            /\ "ok" \in makedirs_outcomes(dirExists)
            /\ dirExists => makedirs_outcomes(dirExists) = {"ok"})
    /\ [][(pc = "makedirs" /\ pc' # pc) =>
            /\ pc' = "call" => dirExists'
            /\ dirExists => pc' = "call" /\ dirExists' /\ files' = files
            /\ files' = files]_vars

\* a file has been written into a directory that was there, beside what it held
C3_Witness ==
    /\ pc = "print" /\ runs = 1 /\ IsPng(filepath)
    /\ OtherPath \in DOMAIN files /\ files[OtherPath] = OtherFile
(***************************************************************************)
(* C4: a call of create_icon with the arguments of the call before it      *)
(* writes the same path, is not refused because the file is there, and     *)
(* leaves the files of the directory, names and contents, as the first     *)
(* call left them; a whole run after a whole run leaves them as they were. *)
(***************************************************************************)
C4_Idempotent ==
    /\ [][(pc = "save" /\ pc' = "print" /\ LastSaveSame) =>
            /\ \A i \in Saves : (hist[i].size = size /\ hist[i].scale = scale)
                                   => hist[i].path = filepath
            /\ DOMAIN files' = DOMAIN files
            /\ files' = files]_vars
    /\ []((pc = "save" /\ filepath \in DOMAIN files) =>
            "ok" \in save_outcomes(dirExists, files, filepath))
    /\ []((pc = "done" /\ prevDone) => files = files0)

\* the second of two calls with the same arguments has written its file
C4_Witness ==
    /\ pc = "print" /\ Len(script) = 2 /\ script[1] = script[2] /\ calls = << >>
    /\ Cardinality(Saves) = 2 /\ IsPng(filepath)

(***************************************************************************)
(* C5 as stated: for size = 512 and scale = 1 the centre pixel of the      *)
(* written image has the background colour (0, 102, 204).                  *)
(***************************************************************************)
C5_CentreIsBackground ==
    IsPng(Path512) => files[Path512].px[Centre] = Ink(BackgroundFill)

(***************************************************************************)
(* C5 as amended: for size = 512 and scale = 1 the centre pixel of the     *)
(* written image is opaque white, the colour of the lock; it has the       *)
(* background colour from the drawing of the disc until the lock body,     *)
(* which covers the centre, is drawn.                                      *)
(***************************************************************************)
C5_CentreIsLock ==
    /\ IsPng(Path512) => files[Path512].px[Centre] = <<255, 255, 255, 255>>
    /\ (size = 512 /\ scale = 1 /\ pc \in {"lock", "body"}) =>
         img.px[Centre] = <<0, 102, 204, 255>>
    /\ (size = 512 /\ scale = 1 /\ pc \in AfterBody) =>
         img.px[Centre] = <<255, 255, 255, 255>>

C5_Witness == IsPng(Path512) /\ files[Path512].w = 512 /\ Centre \in DOMAIN files[Path512].px

(***************************************************************************)
(* C6 as stated: the lock rectangle's width and height are each exactly    *)
(* 60% of the canvas dimension, and its margins left, right, top and       *)
(* bottom are equal, each 20% of the canvas dimension.                     *)
(***************************************************************************)
C6_ExactlySixtyPercent ==
    pc \in AfterLock =>
        /\ BMulSmall(lock_width, 10) = BMulSmall(FromInt(N), 6)
        /\ BMulSmall(lock_height, 10) = BMulSmall(FromInt(N), 6)
        /\ lock_x = RightMargin /\ lock_y = BottomMargin /\ lock_x = lock_y
        /\ BMulSmall(lock_x, 10) = BMulSmall(FromInt(N), 2)

(***************************************************************************)
(* C6 as amended: the lock rectangle's width and height are equal, and     *)
(* are 60% of the canvas dimension n = size * scale up to the rounding of  *)
(* binary floating point (within n * 2^-52); the rectangle is centred      *)
(* exactly (left margin = right margin = top margin = bottom margin), each *)
(* margin 20% of n up to the same rounding.                                *)
(***************************************************************************)
C6_SixtyPercentRounded ==
    pc \in AfterLock =>
        /\ lock_width = lock_height
        /\ NearTenths(lock_width, 6, FromInt(N), N)
        /\ lock_x = RightMargin /\ lock_y = BottomMargin /\ lock_x = lock_y
        /\ NearTenths(lock_x, 2, FromInt(N), N)
        /\ BLt(lock_width, FromInt(N)) /\ lock_x # << >>

C6_Witness == pc = "body" /\ N = 512 /\ lock_width # << >> /\ lock_x = RightMargin
(***************************************************************************)
(* C7: a failure of the directory creation or of a write ends the run: the *)
(* failed step is not tried again, no later step runs (no further write,   *)
(* no confirmation line for the failed write, no banner), and nothing is   *)
(* cleaned up: a file an earlier call wrote stays.  When the directory     *)
(* creation fails no file is written.                                      *)
(***************************************************************************)
C7_FailureEndsRun ==
    /\ [](pc = "crashed" <=> Errors # {})
    /\ [](Errors # {} =>
            /\ Errors = {Len(hist)}
            /\ \A i \in DOMAIN stdout : stdout[i].line = "generated"
            /\ Len(stdout) = Cardinality(Saves)
            /\ \A i \in Saves : stdout[Cardinality({k \in Saves : k <= i})].path = hist[i].path
            /\ \A i \in Saves : IsPng(hist[i].path))
    /\ []((hist # << >> /\ hist[1].ev = "makedirs_error") =>
            hist = <<[ev |-> "makedirs_error"]>> /\ files = files0 /\ stdout = << >>)
    /\ [](/\ Cardinality({i \in DOMAIN hist : hist[i].ev \in {"makedirs", "makedirs_error"}}) <= 1
          /\ Cardinality(SaveTries) <= Len(script) - Len(calls))
    /\ [][pc = "crashed" => (pc' = "makedirs" /\ runs' = runs + 1 /\ fsys' = fsys)]_vars

\* the second write failed: the first file is in place, one line printed, no banner
C7_Witness ==
    /\ pc = "crashed" /\ Len(hist) = 4 /\ hist[4].ev = "save_error"
    /\ hist[4].path = Path512at2x /\ IsPng(Path512) /\ Len(stdout) = 1

(***************************************************************************)
(* C8: in a run without failure the events come in this order: directory   *)
(* ensured, write of the (512, 1) file, its confirmation line, write of    *)
(* the (512, 2) file, its confirmation line, banner.  Standard output is   *)
(* two confirmation lines, each naming the path just written and printed   *)
(* after that write, then one banner, printed when both files exist.       *)
(***************************************************************************)
C8_EventOrder ==
    /\ Errors = {} => (Len(hist) <= 6 /\ hist = SubSeq(ExpectedHist, 1, Len(hist)))
    /\ Len(stdout) <= 3 /\ stdout = SubSeq(ExpectedStdout, 1, Len(stdout))
    /\ pc = "done" <=> (hist = ExpectedHist /\ stdout = ExpectedStdout)
    /\ \A i \in DOMAIN stdout : stdout[i].line = "generated" => IsPng(stdout[i].path)
    /\ Len(stdout) = 3 => IsPng(Path512) /\ IsPng(Path512at2x)

C8_Witness == pc = "done" /\ Len(stdout) = 3 /\ Len(hist) = 6
(***************************************************************************)
(* C9: the three shackle rectangles share one vertical span, from the top  *)
(* of the lock rectangle to 50% of the lock height; the central bar spans  *)
(* 30% to 70% of the lock width, the left bar 20% to 40% and the right bar *)
(* 60% to 80% (fractions of the lock width up to floating-point rounding), *)
(* so each side bar reaches 10% of the lock width beyond the central bar   *)
(* and 10% into it, and the shackle's bottom edge, at 50% of the lock      *)
(* height, lies below the top edge of the lock body, at 40%.               *)
(***************************************************************************)
C9_ShackleGeometry ==
    (pc = "filename" /\ Len(drawn) = 5) =>
        LET body  == drawn[2]
            bar   == drawn[3]
            left  == drawn[4]
            right == drawn[5]
        IN  /\ body.op = "rounded_rectangle"
            /\ \A s \in {bar, left, right} :
                 /\ s.op = "rectangle"
                 /\ s.y0 = lock_y
                 /\ s.y1 = bar.y1
                 /\ AtHeightTenths(s.y1, 5)
            /\ AtWidthTenths(bar.x0, 3) /\ AtWidthTenths(bar.x1, 7)
            /\ AtWidthTenths(left.x0, 2) /\ AtWidthTenths(left.x1, 4)
            /\ AtWidthTenths(right.x0, 6) /\ AtWidthTenths(right.x1, 8)
            /\ NearTenths(BSub(bar.x0, left.x0), 1, lock_width, N)
            /\ NearTenths(BSub(left.x1, bar.x0), 1, lock_width, N)
            /\ NearTenths(BSub(right.x1, bar.x1), 1, lock_width, N)
            /\ NearTenths(BSub(bar.x1, right.x0), 1, lock_width, N)
            /\ BLt(left.x0, bar.x0) /\ BLt(bar.x0, left.x1) /\ BLt(left.x1, right.x0)
            /\ BLt(right.x0, bar.x1) /\ BLt(bar.x1, right.x1)
            /\ AtHeightTenths(body.y0, 4)
            /\ BLt(body.y0, bar.y1)

C9_Witness == Len(drawn) = 5 /\ N = 1024 /\ drawn[4].op = "rectangle" /\ pc = "filename"

(***************************************************************************)
(* C10: over positive sizes and scales the path is an injective function   *)
(* of (size, scale): calls with different arguments write different files, *)
(* a write leaves every other file as it was (the (512, 2) call does not   *)
(* touch the file of the (512, 1) call), and what a call writes depends on *)
(* its arguments alone.  For scale <= 0 there is no suffix: the path is    *)
(* that of scale = 1.                                                      *)
(***************************************************************************)
C10_PathInjective ==
    /\ [](pc = "makedirs" =>
            /\ \A a \in Args : \A b \in Args : a # b => PathOf(a) # PathOf(b)
            /\ \A sz \in Sizes : \A sc \in {-1, 0} : PathOf(<<sz, sc>>) = PathOf(<<sz, 1>>))
    /\ [](\A i \in Saves : \A j \in Saves :
            (hist[i].size # hist[j].size \/ hist[i].scale # hist[j].scale)
                => hist[i].path # hist[j].path)
    /\ [][(pc = "save" /\ pc' # pc) =>
            \A p \in DOMAIN files : p # filepath => (p \in DOMAIN files' /\ files'[p] = files[p])]_vars
    /\ [](pc = "print" => files[filepath] = PngOf(Render(size, scale)))
    /\ []((script = EntryCalls /\ Cardinality(Saves) = 2) =>
            /\ IsPng(Path512) /\ files[Path512] = PngOf(Render(512, 1))
            /\ IsPng(Path512at2x) /\ Path512 # Path512at2x)

\* the second of two calls with different arguments has written its file beside the first
C10_Witness ==
    /\ pc = "print" /\ Len(script) = 2 /\ script[1] # script[2] /\ Cardinality(Saves) = 2
    /\ IsPng(PathOf(script[1])) /\ IsPng(PathOf(script[2]))
====
